---- MODULE Spec2Model ----
(***************************************************************************)
(* A model of generate_fmod_constants.py: the enum extractor parse_enum,   *)
(* the define extractor parse_defines, and main's merge, categorization    *)
(* and emission.                                                           *)
(*                                                                         *)
(* Text is modelled character by character: a Python str is a sequence of  *)
(* one-character strings, and every str / re operation the source uses is  *)
(* an operator on such sequences, computed as Python computes it.  A dict  *)
(* is a sequence of [k, v] records in insertion order.                     *)
(***************************************************************************)
EXTENDS Integers, Sequences, FiniteSets, TLC

VARIABLES
    pc,              \* position of the running function
    header_content,  \* parse_enum / parse_defines argument
    enum_name,       \* parse_enum argument
    prefix,          \* parse_defines argument
    decl,            \* the declarations header_content was written from
    layout,          \* how the declarations were laid out as text
    lines,           \* parse_enum: lines of enum_body not yet visited
    matches,         \* parse_defines: regex matches not yet visited
    constants,       \* parse_enum / parse_defines: local dict
    current_value,   \* parse_enum: running counter
    fmod_common,     \* main: text of fmod_common.h
    all_constants,   \* main: merged dict
    categories,      \* main: dict category -> list of names
    enum_idx,        \* main: index of the enum name the loop of line 100 is at
    passes,          \* main: the table each extraction pass so far produced
    cat_idx,         \* main: index of the category the loop of line 206 is at
    java_code        \* main: emitted lines

\* the variables of main
mainVars == <<fmod_common, all_constants, categories, enum_idx, passes,
              cat_idx, java_code>>

vars == <<pc, header_content, enum_name, prefix, decl, layout, lines, matches,
          constants, current_value, mainVars>>

----------------------------------------------------------------------------
(* Characters *)

Upper == {"A","B","C","D","E","F","G","H","I","J","K","L","M",
          "N","O","P","Q","R","S","T","U","V","W","X","Y","Z"}
Lower == {"a","b","c","d","e","f","g","h","i","j","k","l","m",
          "n","o","p","q","r","s","t","u","v","w","x","y","z"}
Digits == {"0","1","2","3","4","5","6","7","8","9"}

\* str.strip() / regex \s
Whitespace == {" ", "\t", "\n", "\r"}
IsSpace(c) == c \in Whitespace
\* regex \w
WordChars == Upper \cup Lower \cup Digits \cup {"_"}
\* regex [A-Z0-9_]
UpperWordChars == Upper \cup Digits \cup {"_"}
\* regex [0-9A-Fa-f]
HexDigits == Digits \cup {"A","B","C","D","E","F","a","b","c","d","e","f"}
IsDigit(c) == c \in Digits
IsHex(c) == c \in HexDigits

HexChars == <<"0","1","2","3","4","5","6","7","8","9","A","B","C","D","E","F">>

DigitVal(c) ==
    CASE c = "a" -> 10 [] c = "b" -> 11 [] c = "c" -> 12
      [] c = "d" -> 13 [] c = "e" -> 14 [] c = "f" -> 15
      [] OTHER -> (CHOOSE i \in 1..16 : HexChars[i] = c) - 1

\* code points, for the ordering sorted() uses
Ascii ==
    <<"\t", "\n", "\r", " ", "!", "#", "$", "%", "&", "'", "(", ")", "*", "+", ",", "-",
      ".", "/", "0","1","2","3","4","5","6","7","8","9", ":", ";", "<", "=",
      ">", "?", "@",
      "A","B","C","D","E","F","G","H","I","J","K","L","M",
      "N","O","P","Q","R","S","T","U","V","W","X","Y","Z",
      "[", "]", "^", "_",
      "a","b","c","d","e","f","g","h","i","j","k","l","m",
      "n","o","p","q","r","s","t","u","v","w","x","y","z",
      "{", "|", "}", "~">>

Ord(c) == CHOOSE i \in 1..Len(Ascii) : Ascii[i] = c

----------------------------------------------------------------------------
(* str operations *)

\* s[i-1:] in Python terms
From(s, i) == SubSeq(s, i, Len(s))

MatchAt(s, i, p) ==
    /\ i >= 1
    /\ i + Len(p) - 1 <= Len(s)
    /\ \A k \in 1..Len(p) : s[i + k - 1] = p[k]

StartsWith(s, p) == MatchAt(s, 1, p)

EndsWith(s, p) == Len(p) <= Len(s) /\ MatchAt(s, Len(s) - Len(p) + 1, p)

\* p occurs in s at position k (p is not empty)
Occurs(s, p, k) == s[k] = p[1] /\ MatchAt(s, k, p)

\* least index >= i at which p occurs in s, 0 when there is none
Find(s, p, i) ==
    LET n == Len(s) - Len(p) + 1
    IN  IF \E k \in i..n : Occurs(s, p, k)
        THEN CHOOSE k \in i..n :
                 Occurs(s, p, k) /\ \A h \in i..(k - 1) : ~Occurs(s, p, h)
        ELSE 0

Contains(s, p) == Find(s, p, 1) # 0

\* least index >= i at which s holds a character outside cs, Len(s) + 1
\* when none: the end of the longest run of cs characters from i
RunEnd(s, i, cs) ==
    IF \E k \in i..Len(s) : s[k] \notin cs
    THEN CHOOSE k \in i..Len(s) :
             s[k] \notin cs /\ \A h \in i..(k - 1) : s[h] \in cs
    ELSE IF i > Len(s) THEN i ELSE Len(s) + 1

SkipSpace(s, i) == RunEnd(s, i, Whitespace)

\* greatest index at which s holds a character outside cs, 0 when none
LastOutside(s, cs) ==
    IF \E k \in 1..Len(s) : s[k] \notin cs
    THEN CHOOSE k \in 1..Len(s) :
             s[k] \notin cs /\ \A h \in (k + 1)..Len(s) : s[h] \in cs
    ELSE 0

LStrip(s) == From(s, SkipSpace(s, 1))

RStrip(s) == SubSeq(s, 1, LastOutside(s, Whitespace))

Strip(s) == LStrip(RStrip(s))

\* s.rstrip(c) for a one-character c
RStripChar(s, c) == SubSeq(s, 1, LastOutside(s, {c}))

\* s.split(sep): the pieces between the non-overlapping occurrences of sep
RECURSIVE Split(_, _)
Split(s, sep) ==
    LET k == Find(s, sep, 1)
    IN  IF k = 0 THEN <<s>>
        ELSE <<SubSeq(s, 1, k - 1)>> \o Split(From(s, k + Len(sep)), sep)

RECURSIVE Join(_, _)
Join(parts, sep) ==
    IF parts = <<>> THEN <<>>
    ELSE IF Len(parts) = 1 THEN parts[1]
    ELSE parts[1] \o sep \o Join(Tail(parts), sep)

----------------------------------------------------------------------------
(* int() *)

IntError == [ok |-> FALSE, val |-> 0]

\* the digits of an integer literal: digits of the base, single underscores
\* between them (and, when a base prefix was read, one before the first)
DigitsOk(body, base, afterPrefix) ==
    /\ body # <<>>
    /\ \A k \in 1..Len(body) :
          \/ (IF base = 16 THEN IsHex(body[k]) ELSE IsDigit(body[k]))
          \/ /\ body[k] = "_"
             /\ k < Len(body)
             /\ body[k + 1] # "_"
             /\ (k > 1 \/ afterPrefix)

RECURSIVE DigitsVal(_, _, _)
DigitsVal(body, base, acc) ==
    IF body = <<>> THEN acc
    ELSE IF Head(body) = "_" THEN DigitsVal(Tail(body), base, acc)
    ELSE DigitsVal(Tail(body), base, acc * base + DigitVal(Head(body)))

\* int(s, base) for base 10 or 16: [ok, val]; ok = FALSE is ValueError
ParseInt(s, base) ==
    LET t      == Strip(s)
        neg    == t # <<>> /\ t[1] = "-"
        signed == t # <<>> /\ t[1] \in {"-", "+"}
        u      == IF signed THEN Tail(t) ELSE t
        pre    == base = 16 /\ Len(u) >= 2 /\ u[1] = "0" /\ u[2] \in {"x", "X"}
        body   == IF pre THEN From(u, 3) ELSE u
    IN  IF DigitsOk(body, base, pre)
        THEN [ok |-> TRUE,
              val |-> IF neg THEN 0 - DigitsVal(body, base, 0)
                             ELSE DigitsVal(body, base, 0)]
        ELSE IntError

----------------------------------------------------------------------------
(* dict *)

Keys(d) == [i \in 1..Len(d) |-> d[i].k]

KeySet(d) == {d[i].k : i \in 1..Len(d)}

Has(d, k) == \E i \in 1..Len(d) : d[i].k = k

Get(d, k) == d[CHOOSE i \in 1..Len(d) : d[i].k = k].v

\* DictSet with the write dropped when the key is already present
DictSetKeepFirst(d, k, v) ==
    IF Has(d, k) THEN d ELSE Append(d, [k |-> k, v |-> v])

\* d[k] = v: an existing key keeps its place, a new one goes last
DictSet(d, k, v) ==
    IF Has(d, k)
    THEN [i \in 1..Len(d) |-> IF d[i].k = k THEN [k |-> k, v |-> v] ELSE d[i]]
    ELSE Append(d, [k |-> k, v |-> v])

RECURSIVE DictUpdateKeepFirst(_, _)
DictUpdateKeepFirst(d, other) ==
    IF other = <<>> THEN d
    ELSE DictUpdateKeepFirst(DictSetKeepFirst(d, Head(other).k, Head(other).v),
                             Tail(other))

\* d.update(other)
RECURSIVE DictUpdate(_, _)
DictUpdate(d, other) ==
    IF other = <<>> THEN d
    ELSE DictUpdate(DictSet(d, Head(other).k, Head(other).v), Tail(other))

----------------------------------------------------------------------------
(* parse_enum *)

FORCEINT == <<"F","O","R","C","E","I","N","T">>

NoMatch == [found |-> FALSE, body |-> <<>>]

\* the text  typedef enum NAME\s*\{  stands at position i, and a } follows
\* it: the pattern  typedef enum NAME\s*\{(.*?)\}  matches from i
EnumMatchAt(text, name, i) ==
    /\ text[i] = "t"
    /\ MatchAt(text, i, <<"t","y","p","e","d","e","f"," ","e","n","u","m"," ">> \o name)
    /\ LET brace == SkipSpace(text, i + Len(<<"t","y","p","e","d","e","f"," ","e","n","u","m"," ">> \o name))
       IN  /\ brace <= Len(text)
           /\ text[brace] = "{"
           /\ Find(text, <<"}">>, brace + 1) # 0

\* group(1) of the match from i: what stands between the braces
EnumGroup(text, name, i) ==
    LET brace == SkipSpace(text, i + Len(<<"t","y","p","e","d","e","f"," ","e","n","u","m"," ">> \o name))
    IN  SubSeq(text, brace + 1, Find(text, <<"}">>, brace + 1) - 1)

\* re.search(pattern, header_content, re.DOTALL): the leftmost match
EnumSearch(text, name) ==
    IF \E i \in 1..Len(text) : EnumMatchAt(text, name, i)
    THEN [found |-> TRUE,
          body |-> EnumGroup(text, name,
                       CHOOSE i \in 1..Len(text) :
                           /\ EnumMatchAt(text, name, i)
                           /\ \A h \in 1..(i - 1) : ~EnumMatchAt(text, name, h))]
    ELSE NoMatch

\* re.sub(r'//.*', '', line)
SubLineComment(line) ==
    LET i == Find(line, <<"/","/">>, 1)
    IN  IF i = 0 THEN line ELSE SubSeq(line, 1, i - 1)

\* re.sub(r'/\*.*?\*/', '', line)
RECURSIVE SubBlockComments(_)
SubBlockComments(line) ==
    LET i == Find(line, <<"/","*">>, 1)
        j == IF i = 0 THEN 0 ELSE Find(line, <<"*","/">>, i + 2)
    IN  IF j = 0 THEN line
        ELSE SubSeq(line, 1, i - 1) \o SubBlockComments(From(line, j + 2))

\* "Remove trailing comma and comments": the two re.sub, then
\* line.rstrip(',').strip()
CleanLine(line) ==
    Strip(RStripChar(SubBlockComments(SubLineComment(line)), ","))

RECURSIVE Pow2(_)
Pow2(n) == IF n = 0 THEN 1 ELSE 2 * Pow2(n - 1)

\* the value of an explicitly assigned member:
\* [kind |-> "value", val], "skip" (the except: continue) or "raise"
\* (an exception that leaves parse_enum)
EvalValue(value_str) ==
    IF StartsWith(value_str, <<"0","x">>)
    THEN LET r == ParseInt(value_str, 16)
         IN  IF r.ok THEN [kind |-> "value", val |-> r.val]
             ELSE [kind |-> "raise", val |-> 0]
    ELSE IF Contains(value_str, <<"<","<">>)
    THEN LET ps == Split(value_str, <<"<","<">>)
             b  == ParseInt(Strip(ps[1]), 10)
             s  == ParseInt(Strip(ps[2]), 10)
         IN  IF Len(ps) = 2 /\ b.ok /\ s.ok /\ s.val >= 0
             THEN [kind |-> "value", val |-> b.val * Pow2(s.val)]
             ELSE [kind |-> "raise", val |-> 0]
    ELSE LET r == ParseInt(value_str, 10)
         IN  IF r.ok THEN [kind |-> "value", val |-> r.val]
             ELSE [kind |-> "skip", val |-> 0]

\* the guard of the recording with the sentinel test left out
RecordedAnyName(name) == name # <<>>

\* if name and not name.endswith('FORCEINT')
Recorded(name) == name # <<>> /\ ~EndsWith(name, FORCEINT)

\* the last statements of the loop body: record the member under the value
\* current_value now holds, and advance the counter
Record(cs, name, value) ==
    IF Recorded(name)
    THEN [constants |-> DictSet(cs, name, value), current_value |-> value + 1,
          raised |-> FALSE]
    ELSE [constants |-> cs, current_value |-> value, raised |-> FALSE]

\* one iteration of  for line in enum_body.split('\n')
ParseLine(raw, cs, cv) ==
    LET same  == [constants |-> cs, current_value |-> cv, raised |-> FALSE]
        line1 == Strip(raw)
        line2 == CleanLine(line1)
        parts == Split(line2, <<"=">>)
        ev    == EvalValue(Strip(parts[2]))
    IN  IF line1 = <<>> \/ StartsWith(line1, <<"/","/">>) \/ StartsWith(line1, <<"/","*">>)
        THEN same
        ELSE IF line2 = <<>> \/ line2 = <<"}">>
        THEN same
        ELSE IF Contains(line2, <<"=">>)
        THEN CASE ev.kind = "raise" ->
                    [constants |-> cs, current_value |-> cv, raised |-> TRUE]
               [] ev.kind = "skip" -> same
               [] OTHER -> Record(cs, Strip(parts[1]), ev.val)
        ELSE Record(cs, Strip(line2), cv)

RECURSIVE ParseLines(_, _, _)

\* the loop after the iteration with outcome r: left when r raised, on to the
\* lines that remain otherwise
AfterLine(r, rest) ==
    IF r.raised THEN r ELSE ParseLines(rest, r.constants, r.current_value)

ParseLines(ls, cs, cv) ==
    IF ls = <<>> THEN [constants |-> cs, current_value |-> cv, raised |-> FALSE]
    ELSE AfterLine(ParseLine(Head(ls), cs, cv), Tail(ls))

\* lines 17-22 after the search with outcome m
AfterSearch(m) ==
    IF ~m.found THEN [constants |-> <<>>, current_value |-> 0, raised |-> FALSE]
    ELSE ParseLines(Split(m.body, <<"\n">>), <<>>, 0)

\* parse_enum as a function: [raised, constants]
ParseEnum(text, name) == AfterSearch(EnumSearch(text, name))

----------------------------------------------------------------------------
(* Inputs of parse_enum: enum declarations, written out as header text *)

\* the most members an enum body is given
MaxMembers == 3

E_RESULT == <<"E","_","R","E","S","U","L","T">>
E_RES == <<"E","_","R","E","S">>

\* A member declaration: its name, the text of its value expression (empty
\* when it has none) and what C makes of that expression.  cval is
\* meaningful only when the expression is a decimal literal, a 0x literal
\* or a shift of two decimal literals (plain = TRUE).
Member(name, expr, plain, cval) ==
    [name |-> name, expr |-> expr, plain |-> plain, cval |-> cval]

MemberPool ==
    << Member(<<"E","_","O","K">>, <<>>, TRUE, 0),
      Member(<<"E","_","E","R","R","_","B","A","D">>, <<"5">>, TRUE, 5),
      Member(<<"E","_","E","R","R","_","W","O","R","S","E">>, <<>>, TRUE, 0),
      Member(<<"E","_","R","E","S","U","L","T","_","F","O","R","C","E","I","N","T">>, <<"6","5","5","3","6">>, TRUE, 65536),
      Member(<<"E","_","M","A","X","_","F","O","R","C","E","I","N","T">>, <<>>, TRUE, 0),
      Member(<<"E","_","H","E","X">>, <<"0","x","1","0">>, TRUE, 16),
      Member(<<"E","_","S","H","I","F","T">>, <<"1"," ","<","<"," ","4">>, TRUE, 16),
      Member(<<"E","_","S","Y","M">>, <<"O","T","H","E","R">>, FALSE, 0),
      Member(<<"E","_","B","A","D","H","E","X">>, <<"0","x","Z","Z">>, FALSE, 0),
      Member(<<"E","_","C","H","A","I","N">>, <<"1"," ","<","<"," ","2"," ","<","<"," ","3">>, FALSE, 0) >>

\* an enum body: up to MaxMembers members of the pool, named by their index
Bodies == UNION {[1..n -> 1..Len(MemberPool)] : n \in 0..MaxMembers}

Layouts == {"oneline", "lines", "comments"}

MemberText(m) ==
    IF m.expr = <<>> THEN m.name ELSE m.name \o <<" ","="," ">> \o m.expr

\* every member on a line of its own, all but the last followed by a comma;
\* with comments, a comment line first and a comment after every member
RECURSIVE MemberLines(_, _, _)
MemberLines(d, i, commented) ==
    IF i > Len(d) THEN <<>>
    ELSE <<" "," "," "," ">> \o MemberText(MemberPool[d[i]])
         \o (IF i < Len(d) THEN <<",">> ELSE <<>>)
         \o (IF ~commented THEN <<>>
             ELSE IF i % 2 = 1 THEN <<" ","/","*"," ","c"," ","*","/">> ELSE <<" ","/","/"," ","c">>)
         \o <<"\n">>
         \o MemberLines(d, i + 1, commented)

HeaderText(tag, d, lay) ==
    CASE lay = "oneline" ->
           <<"t","y","p","e","d","e","f"," ","e","n","u","m"," ">> \o tag \o <<" ","{"," ">>
           \o Join([i \in 1..Len(d) |-> MemberText(MemberPool[d[i]])], <<","," ">>)
           \o <<" ","}"," ">> \o tag \o <<";">>
      [] lay = "lines" ->
           <<"t","y","p","e","d","e","f"," ","e","n","u","m"," ">> \o tag \o <<"\n","{","\n">>
           \o MemberLines(d, 1, FALSE)
           \o <<"}"," ">> \o tag \o <<";","\n">>
      [] OTHER ->
           <<"t","y","p","e","d","e","f"," ","e","n","u","m"," ">> \o tag \o <<"\n","{","\n">>
           \o <<" "," "," "," ","/","/"," ","m","e","m","b","e","r","s","\n">>
           \o MemberLines(d, 1, TRUE)
           \o <<"}"," ">> \o tag \o <<";","\n">>

----------------------------------------------------------------------------
(* parse_enum, statement by statement *)

InitEnum ==
    \E d \in Bodies, lay \in Layouts :
        /\ decl = d
        /\ layout = lay
        /\ header_content = HeaderText(E_RESULT, d, lay)
        /\ enum_name \in (IF Len(d) <= 1 THEN {E_RESULT, E_RES} ELSE {E_RESULT})
        /\ pc = "enum_search"
        /\ prefix = <<>>
        /\ lines = <<>>
        /\ matches = <<>>
        /\ constants = <<>>
        /\ current_value = 0
        /\ fmod_common = <<>>
        /\ all_constants = <<>>
        /\ categories = <<>>
        /\ enum_idx = 0
        /\ passes = <<>>
        /\ cat_idx = 0
        /\ java_code = <<>>

\* lines 15-22: the search, the early return, the loop's set-up
EnumFind ==
    /\ pc = "enum_search"
    /\ LET m == EnumSearch(header_content, enum_name)
       IN  IF ~m.found
           THEN /\ pc' = "done"
                /\ lines' = <<>>
           ELSE /\ pc' = "enum_loop"
                /\ lines' = Split(m.body, <<"\n">>)
    /\ constants' = <<>>
    /\ current_value' = 0
    /\ UNCHANGED <<header_content, enum_name, prefix, decl, layout, matches,
                   mainVars>>

\* lines 24-62: one iteration of the loop
EnumLine ==
    /\ pc = "enum_loop"
    /\ lines # <<>>
    /\ LET r == ParseLine(Head(lines), constants, current_value)
       IN  /\ pc' = IF r.raised THEN "raised" ELSE "enum_loop"
           /\ constants' = r.constants
           /\ current_value' = r.current_value
    /\ lines' = Tail(lines)
    /\ UNCHANGED <<header_content, enum_name, prefix, decl, layout, matches,
                   mainVars>>

\* line 64: return constants
EnumReturn ==
    /\ pc = "enum_loop"
    /\ lines = <<>>
    /\ pc' = "done"
    /\ UNCHANGED <<header_content, enum_name, prefix, decl, layout, lines,
                   matches, constants, current_value, mainVars>>

NextEnum == EnumFind \/ EnumLine \/ EnumReturn

SpecEnum == InitEnum /\ [][NextEnum]_vars

----------------------------------------------------------------------------
(* Properties of parse_enum *)

Sentinel(i) == EndsWith(MemberPool[decl[i]].name, FORCEINT)

ScenarioHeader ==
    <<"t","y","p","e","d","e","f"," ","e","n","u","m"," ","E","_","R","E","S","U","L","T"," ","{"," ","E","_","O","K",","," ","E","_","E","R","R","_","B","A","D"," ","="," ","5",","," ","E","_","E","R","R","_","W","O","R","S","E"," ","}"," ","E","_","R","E","S","U","L","T",";">>

\* C1: parse_enum on the header text
\*   typedef enum E_RESULT { E_OK, E_ERR_BAD = 5, E_ERR_WORSE } E_RESULT;
\* with enum name E_RESULT returns the table E_OK:0, E_ERR_BAD:5,
\* E_ERR_WORSE:6, three entries in declaration order.
C1_Scenario ==
    (pc = "done" /\ header_content = ScenarioHeader /\ enum_name = E_RESULT)
        => constants = << [k |-> <<"E","_","O","K">>, v |-> 0],
                          [k |-> <<"E","_","E","R","R","_","B","A","D">>, v |-> 5],
                          [k |-> <<"E","_","E","R","R","_","W","O","R","S","E">>, v |-> 6] >>

\* the declared body holds only members with no value or with a decimal,
\* 0x or shift value, no sentinel and no name twice
PlainBody ==
    /\ \A i \in 1..Len(decl) : MemberPool[decl[i]].plain /\ ~Sentinel(i)
    /\ \A i, j \in 1..Len(decl) : decl[i] = decl[j] => i = j

\* C's value of the i-th declared member of a plain body
RECURSIVE CValue(_)
CValue(i) ==
    IF MemberPool[decl[i]].expr # <<>> THEN MemberPool[decl[i]].cval
    ELSE IF i = 1 THEN 0
    ELSE CValue(i - 1) + 1

\* C2: for every enum body parse_enum reproduces C's implicit increment:
\* the counter starts at 0, a member with no explicit value takes the
\* counter, a member with an explicit decimal, 0x or shift value takes that
\* value, and the counter goes on from the member's value plus 1; so the
\* declared members get C's values, in declaration order.
C2_ImplicitIncrement ==
    (pc \in {"done", "raised"} /\ enum_name = E_RESULT /\ PlainBody)
        => /\ pc = "done"
           /\ Len(constants) = Len(decl)
           /\ \A i \in 1..Len(decl) : constants[i].v = CValue(i)

\* C3: parse_enum never raises: whatever the value expressions of the body,
\* it returns a table.
C3_NeverRaises == pc # "raised"

----------------------------------------------------------------------------
(* #define scanning: parse_defines and the scans written out in main *)

NoDefine == [ok |-> FALSE, name |-> <<>>, value_str |-> <<>>, end |-> 0]

\* A match starting at position i of
\*     #define\s+(PFX NAME+)\s+(0x[0-9A-Fa-f]+|\d+)     (decimal = TRUE)
\*     #define\s+(PFX NAME+)\s+(0x[0-9A-Fa-f]+)         (decimal = FALSE)
\* where NAME is the character class nameChars.  Every quantifier is greedy
\* and is followed by a character outside its class, so each takes its
\* longest run.  end is the position after the match.
DefineMatchAt(text, i, pfx, nameChars, decimal) ==
    LET sp1   == i + 7
        nm    == SkipSpace(text, sp1)
        nmEnd == RunEnd(text, nm + Len(pfx), nameChars)
        val   == SkipSpace(text, nmEnd)
        hexEnd == RunEnd(text, val + 2, HexDigits)
        decEnd == RunEnd(text, val, Digits)
    IN  IF /\ text[i] = "#"
           /\ MatchAt(text, i, <<"#","d","e","f","i","n","e">>)
           /\ nm > sp1
           /\ MatchAt(text, nm, pfx)
           /\ nmEnd > nm + Len(pfx)
           /\ val > nmEnd
        THEN IF MatchAt(text, val, <<"0","x">>) /\ hexEnd > val + 2
             THEN [ok |-> TRUE, name |-> SubSeq(text, nm, nmEnd - 1),
                   value_str |-> SubSeq(text, val, hexEnd - 1), end |-> hexEnd]
             ELSE IF decimal /\ decEnd > val
             THEN [ok |-> TRUE, name |-> SubSeq(text, nm, nmEnd - 1),
                   value_str |-> SubSeq(text, val, decEnd - 1), end |-> decEnd]
             ELSE NoDefine
        ELSE NoDefine

\* re.search from position `from`: the leftmost match, NoDefine when none
DefineSearch(text, from, pfx, nameChars, decimal) ==
    IF \E i \in from..Len(text) : DefineMatchAt(text, i, pfx, nameChars, decimal).ok
    THEN DefineMatchAt(text,
             CHOOSE i \in from..Len(text) :
                 /\ DefineMatchAt(text, i, pfx, nameChars, decimal).ok
                 /\ \A h \in from..(i - 1) :
                        ~DefineMatchAt(text, h, pfx, nameChars, decimal).ok,
             pfx, nameChars, decimal)
    ELSE NoDefine

\* re.finditer: the matches from left to right, each search starting where
\* the match before it ended
RECURSIVE FindIter(_, _, _, _, _)
FindIter(text, from, pfx, nameChars, decimal) ==
    LET m == DefineSearch(text, from, pfx, nameChars, decimal)
    IN  IF ~m.ok THEN <<>>
        ELSE <<m>> \o FindIter(text, m.end, pfx, nameChars, decimal)

\* lines 75-78: the value of a match of parse_defines
DefineValue(value_str) ==
    IF StartsWith(value_str, <<"0","x">>) THEN ParseInt(value_str, 16).val
    ELSE ParseInt(value_str, 10).val

\* lines 71-80 as a function: the loop over the matches
RECURSIVE StoreDefines(_, _)
StoreDefines(d, ms) ==
    IF ms = <<>> THEN d
    ELSE StoreDefines(DictSet(d, Head(ms).name, DefineValue(Head(ms).value_str)),
                      Tail(ms))

----------------------------------------------------------------------------
(* Inputs of parse_defines: macro definitions, one a line *)

\* the most #define lines a text is given
MaxDefines == 2

X_ == <<"X","_">>
Y_ == <<"Y","_">>

\* A macro: its name, the text of its value, and whether that text is a bare
\* hexadecimal or decimal integer literal
Macro(name, value, literal) ==
    [name |-> name, value |-> value, literal |-> literal]

MacroPool ==
    << Macro(<<"X","_","F","O","O">>, <<"5">>, TRUE),
       Macro(<<"X","_","F","O","O">>, <<"0","x","1","F">>, TRUE),
       Macro(<<"Y","_","F","O","O">>, <<"7">>, TRUE),
       Macro(<<"X","_","P","A","R","E","N">>, <<"(","1","+","2",")">>, FALSE),
       Macro(<<"X","_","S","U","M">>, <<"1","+","2">>, FALSE),
       Macro(<<"X","_","L","O","N","G">>, <<"0","x","1","0","U","L">>, FALSE),
       Macro(<<"X","_","S","Y","M">>, <<"O","T","H","E","R">>, FALSE),
       Macro(<<"X","_","B","A","D","H","E","X">>, <<"0","x","Z","Z">>, FALSE) >>

MacroTexts == UNION {[1..n -> 1..Len(MacroPool)] : n \in 0..MaxDefines}

RECURSIVE DefineLines(_, _)
DefineLines(d, i) ==
    IF i > Len(d) THEN <<>>
    ELSE <<"#","d","e","f","i","n","e"," ">> \o MacroPool[d[i]].name \o <<" ">> \o MacroPool[d[i]].value
         \o <<"\n">> \o DefineLines(d, i + 1)

----------------------------------------------------------------------------
(* parse_defines, statement by statement *)

InitDefines ==
    \E d \in MacroTexts, p \in {X_, Y_} :
        /\ decl = d
        /\ layout = "lines"
        /\ header_content = DefineLines(d, 1)
        /\ prefix = p
        /\ enum_name = <<>>
        /\ pc = "def_search"
        /\ lines = <<>>
        /\ matches = <<>>
        /\ constants = <<>>
        /\ current_value = 0
        /\ fmod_common = <<>>
        /\ all_constants = <<>>
        /\ categories = <<>>
        /\ enum_idx = 0
        /\ passes = <<>>
        /\ cat_idx = 0
        /\ java_code = <<>>

\* lines 68-71: the dict, the pattern, the scan
DefFind ==
    /\ pc = "def_search"
    /\ pc' = "def_loop"
    /\ constants' = <<>>
    /\ matches' = FindIter(header_content, 1, prefix, WordChars, TRUE)
    /\ UNCHANGED <<header_content, enum_name, prefix, decl, layout, lines,
                   current_value, mainVars>>

\* lines 72-80: one iteration of the loop
DefStore ==
    /\ pc = "def_loop"
    /\ matches # <<>>
    /\ constants' = DictSet(constants, Head(matches).name,
                            DefineValue(Head(matches).value_str))
    /\ matches' = Tail(matches)
    /\ UNCHANGED <<pc, header_content, enum_name, prefix, decl, layout, lines,
                   current_value, mainVars>>

\* line 82: return constants
DefReturn ==
    /\ pc = "def_loop"
    /\ matches = <<>>
    /\ pc' = "done"
    /\ UNCHANGED <<header_content, enum_name, prefix, decl, layout, lines,
                   matches, constants, current_value, mainVars>>

NextDefines == DefFind \/ DefStore \/ DefReturn

SpecDefines == InitDefines /\ [][NextDefines]_vars

\* C7: parse_defines records a macro only when its whole value is a bare
\* hexadecimal or decimal integer literal; a macro with any other value
\* (parenthesised, an expression, a literal followed by further characters)
\* is absent from the table.
C7_OnlyBareLiterals ==
    pc = "done" =>
        \A i \in 1..Len(decl) :
            ~MacroPool[decl[i]].literal
                => ~Has(constants, MacroPool[decl[i]].name)

----------------------------------------------------------------------------
(* main: the extraction passes *)

FMOD_VERSION == <<"F","M","O","D","_","V","E","R","S","I","O","N">>

\* line 96 and lines 100-102: the enums parsed, in order
EnumNames ==
    << <<"F","M","O","D","_","R","E","S","U","L","T">>, <<"F","M","O","D","_","O","U","T","P","U","T","T","Y","P","E">>, <<"F","M","O","D","_","S","P","E","A","K","E","R","M","O","D","E">>, <<"F","M","O","D","_","S","O","U","N","D","_","T","Y","P","E">>,
       <<"F","M","O","D","_","S","O","U","N","D","_","F","O","R","M","A","T">>, <<"F","M","O","D","_","O","P","E","N","S","T","A","T","E">>, <<"F","M","O","D","_","S","O","U","N","D","G","R","O","U","P","_","B","E","H","A","V","I","O","R">>,
       <<"F","M","O","D","_","C","H","A","N","N","E","L","C","O","N","T","R","O","L","_","T","Y","P","E">>, <<"F","M","O","D","_","T","H","R","E","A","D","_","T","Y","P","E">> >>

\* the body of the loops of lines 108-111, 122-125, 129-132, 136-139 and
\* 143-146 as a function: every match stored with int(group(2), 16)
RECURSIVE StoreHex(_, _)
StoreHex(d, ms) ==
    IF ms = <<>> THEN d
    ELSE StoreHex(DictSet(d, Head(ms).name, ParseInt(Head(ms).value_str, 16).val),
                  Tail(ms))

\* a scan of main for  #define\s+(PFX\w+)\s+(0x[0-9A-Fa-f]+)
HexDefines(text, pfx) == FindIter(text, 1, pfx, WordChars, FALSE)

\* the lookahead  (?=typedef|/\*\s+FMOD_TIMEUNIT)  holds at position t
ModeEndAt(text, t) ==
    \/ text[t] = "t" /\ MatchAt(text, t, <<"t","y","p","e","d","e","f">>)
    \/ /\ text[t] = "/"
       /\ MatchAt(text, t, <<"/","*">>)
       /\ SkipSpace(text, t + 2) > t + 2
       /\ MatchAt(text, SkipSpace(text, t + 2), <<"F","M","O","D","_","T","I","M","E","U","N","I","T">>)

\* lines 116-120: the text after the first  typedef unsigned int FMOD_MODE;
\* up to the first place the lookahead holds; no match when it holds nowhere
ModeSection(text) ==
    LET lit   == <<"t","y","p","e","d","e","f"," ","u","n","s","i","g","n","e","d"," ","i","n","t"," ","F","M","O","D","_","M","O","D","E",";">>
        at    == Find(text, lit, 1)
        start == at + Len(lit)
    IN  IF at # 0 /\ \E t \in start..Len(text) : ModeEndAt(text, t)
        THEN [found |-> TRUE,
              body |-> SubSeq(text, start,
                          (CHOOSE t \in start..Len(text) :
                               /\ ModeEndAt(text, t)
                               /\ \A h \in start..(t - 1) : ~ModeEndAt(text, h))
                          - 1)]
        ELSE NoMatch

\* lines 121-122: the scan of the mode section
ModeDefines(text) ==
    IF ModeSection(text).found
    THEN FindIter(ModeSection(text).body, 1, <<"F","M","O","D","_">>, UpperWordChars, FALSE)
    ELSE <<>>

\* line 149: the first  #define\s+FMOD_VERSION\s+(0x[0-9A-Fa-f]+).  The name
\* is the whole of FMOD_VERSION: after it the pattern wants whitespace
VersionMatchAt(text, i) ==
    LET sp1    == i + 7
        nm     == SkipSpace(text, sp1)
        nmEnd  == nm + Len(FMOD_VERSION)
        val    == SkipSpace(text, nmEnd)
        hexEnd == RunEnd(text, val + 2, HexDigits)
    IN  IF /\ text[i] = "#"
           /\ MatchAt(text, i, <<"#","d","e","f","i","n","e">>)
           /\ nm > sp1
           /\ MatchAt(text, nm, FMOD_VERSION)
           /\ val > nmEnd
           /\ MatchAt(text, val, <<"0","x">>)
           /\ hexEnd > val + 2
        THEN [ok |-> TRUE, name |-> FMOD_VERSION,
              value_str |-> SubSeq(text, val, hexEnd - 1), end |-> hexEnd]
        ELSE NoDefine

VersionSearch(text) ==
    IF \E i \in 1..Len(text) : VersionMatchAt(text, i).ok
    THEN <<VersionMatchAt(text,
               CHOOSE i \in 1..Len(text) :
                   /\ VersionMatchAt(text, i).ok
                   /\ \A h \in 1..(i - 1) : ~VersionMatchAt(text, h).ok)>>
    ELSE <<>>

----------------------------------------------------------------------------
(* main: categories and emission *)

\* lines 154-165: the categories, in the order of the dict
CategoryNames ==
    << "Version", "Result codes", "FMOD_INITFLAGS", "FMOD_MODE", "FMOD_TIMEUNIT",
       "FMOD_SYSTEM_CALLBACK_TYPE", "FMOD_CHANNELMASK", "FMOD_OUTPUTTYPE",
       "FMOD_SPEAKERMODE", "FMOD_SOUND_TYPE" >>

\* lines 222-223: the categories always written in hexadecimal
HexCategories ==
    {"FMOD_MODE", "FMOD_INITFLAGS", "FMOD_TIMEUNIT", "FMOD_SYSTEM_CALLBACK_TYPE",
     "FMOD_CHANNELMASK"}

\* the chain with the generic FMOD_ test ahead of the three enum tests
CategoryOfFallbackEarly(name) ==
    IF name = FMOD_VERSION THEN "skip"
    ELSE IF StartsWith(name, <<"F","M","O","D","_","O","K">>) \/ StartsWith(name, <<"F","M","O","D","_","E","R","R","_">>)
    THEN "Result codes"
    ELSE IF StartsWith(name, <<"F","M","O","D","_","I","N","I","T","_">>) THEN "FMOD_INITFLAGS"
    ELSE IF StartsWith(name, <<"F","M","O","D","_","T","I","M","E","U","N","I","T","_">>) THEN "FMOD_TIMEUNIT"
    ELSE IF StartsWith(name, <<"F","M","O","D","_","S","Y","S","T","E","M","_","C","A","L","L","B","A","C","K","_">>) THEN "FMOD_SYSTEM_CALLBACK_TYPE"
    ELSE IF StartsWith(name, <<"F","M","O","D","_","C","H","A","N","N","E","L","M","A","S","K","_">>) THEN "FMOD_CHANNELMASK"
    ELSE IF StartsWith(name, <<"F","M","O","D","_">>) THEN "FMOD_MODE"
    ELSE IF StartsWith(name, <<"F","M","O","D","_","O","U","T","P","U","T","T","Y","P","E","_">>) THEN "FMOD_OUTPUTTYPE"
    ELSE IF StartsWith(name, <<"F","M","O","D","_","S","P","E","A","K","E","R","M","O","D","E","_">>) THEN "FMOD_SPEAKERMODE"
    ELSE IF StartsWith(name, <<"F","M","O","D","_","S","O","U","N","D","_","T","Y","P","E","_">>) THEN "FMOD_SOUND_TYPE"
    ELSE "none"

\* lines 169-189: the if / elif chain; "skip" is the continue of line 170,
\* "none" the fall through with no branch taken
CategoryOf(name) ==
    IF name = FMOD_VERSION THEN "skip"
    ELSE IF StartsWith(name, <<"F","M","O","D","_","O","K">>) \/ StartsWith(name, <<"F","M","O","D","_","E","R","R","_">>)
    THEN "Result codes"
    ELSE IF StartsWith(name, <<"F","M","O","D","_","I","N","I","T","_">>) THEN "FMOD_INITFLAGS"
    ELSE IF StartsWith(name, <<"F","M","O","D","_","T","I","M","E","U","N","I","T","_">>) THEN "FMOD_TIMEUNIT"
    ELSE IF StartsWith(name, <<"F","M","O","D","_","S","Y","S","T","E","M","_","C","A","L","L","B","A","C","K","_">>) THEN "FMOD_SYSTEM_CALLBACK_TYPE"
    ELSE IF StartsWith(name, <<"F","M","O","D","_","C","H","A","N","N","E","L","M","A","S","K","_">>) THEN "FMOD_CHANNELMASK"
    ELSE IF StartsWith(name, <<"F","M","O","D","_","O","U","T","P","U","T","T","Y","P","E","_">>) THEN "FMOD_OUTPUTTYPE"
    ELSE IF StartsWith(name, <<"F","M","O","D","_","S","P","E","A","K","E","R","M","O","D","E","_">>) THEN "FMOD_SPEAKERMODE"
    ELSE IF StartsWith(name, <<"F","M","O","D","_","S","O","U","N","D","_","T","Y","P","E","_">>) THEN "FMOD_SOUND_TYPE"
    ELSE IF StartsWith(name, <<"F","M","O","D","_">>) THEN "FMOD_MODE"
    ELSE "none"

\* a < b for str: by code point at the first difference, a proper prefix first
Less(a, b) ==
    \E k \in 1..(Len(a) + 1) :
        /\ k <= Len(b)
        /\ \A h \in 1..(k - 1) : a[h] = b[h]
        /\ (k = Len(a) + 1 \/ Ord(a[k]) < Ord(b[k]))

\* sorted(all_constants.keys()): the keys of a dict are distinct, so the key
\* at place i is the one with i - 1 keys before it
Sorted(keys) ==
    [i \in 1..Len(keys) |->
        keys[CHOOSE j \in 1..Len(keys) :
                 Cardinality({h \in 1..Len(keys) : Less(keys[h], keys[j])}) = i - 1]]

RECURSIVE Select(_, _)
Select(names, cat) ==
    IF names = <<>> THEN <<>>
    ELSE IF CategoryOf(Head(names)) = cat
    THEN <<Head(names)>> \o Select(Tail(names), cat)
    ELSE Select(Tail(names), cat)

\* lines 154-189: the dict of categories after the loop over the sorted names
Categorized(d) ==
    [i \in 1..Len(CategoryNames) |->
        [k |-> CategoryNames[i],
         v |-> IF CategoryNames[i] = "Version" THEN <<FMOD_VERSION>>
               ELSE Select(Sorted(Keys(d)), CategoryNames[i])]]

\* the digits of n >= 0 in base b, most significant first
RECURSIVE DigitsOf(_, _)
DigitsOf(n, b) ==
    IF n < b THEN <<HexChars[n + 1]>>
    ELSE Append(DigitsOf(n \div b, b), HexChars[(n % b) + 1])

RECURSIVE Zeros(_)
Zeros(n) == IF n <= 0 THEN <<>> ELSE <<"0">> \o Zeros(n - 1)

\* f"{value:08X}": zeros between the sign and the digits up to a width of 8
Format08X(value) ==
    IF value >= 0
    THEN Zeros(8 - Len(DigitsOf(value, 16))) \o DigitsOf(value, 16)
    ELSE <<"-">> \o Zeros(7 - Len(DigitsOf(0 - value, 16)))
                 \o DigitsOf(0 - value, 16)

\* str(value)
Str(value) ==
    IF value >= 0 THEN DigitsOf(value, 10)
    ELSE <<"-">> \o DigitsOf(0 - value, 10)

\* lines 218-228: the literal of a value in a category (0x1000000 and 0x100
\* select the same format)
ValueStr(value, category) ==
    IF value >= 16777216 THEN <<"0","x">> \o Format08X(value)
    ELSE IF value >= 256 THEN <<"0","x">> \o Format08X(value)
    ELSE IF category \in HexCategories THEN <<"0","x">> \o Format08X(value)
    ELSE Str(value)

Line(kind, category, name, value, value_str, comment) ==
    [kind |-> kind, category |-> category, name |-> name, value |-> value,
     value_str |-> value_str, comment |-> comment]

\* lines 212-234: the declarations of one category
RECURSIVE Declarations(_, _, _)
Declarations(names, category, d) ==
    IF names = <<>> THEN <<>>
    ELSE IF ~Has(d, Head(names)) THEN Declarations(Tail(names), category, d)
    ELSE << Line("decl", category, Head(names), Get(d, Head(names)),
                 ValueStr(Get(d, Head(names)), category),
                 IF Head(names) = FMOD_VERSION THEN <<"2",".","0","3",".","0","9">> ELSE <<>>) >>
         \o Declarations(Tail(names), category, d)

\* lines 207-236: what one iteration of the loop over the categories adds
Block(category, names, d) ==
    IF names = <<>> THEN <<>>
    ELSE << Line("header", category, <<>>, 0, <<>>, <<>>) >>
         \o Declarations(names, category, d)
         \o << Line("blank", category, <<>>, 0, <<>>, <<>>) >>

----------------------------------------------------------------------------
(* Inputs of main: fmod_common.h put together from header fragments *)

\* the most fragments a header is given
MaxFragments == 2

Fragments ==
    << <<"t","y","p","e","d","e","f"," ","e","n","u","m"," ","F","M","O","D","_","R","E","S","U","L","T","\n","{","\n"," "," "," "," ","F","M","O","D","_","O","K",",","\n"," "," "," "," ","F","M","O","D","_","E","R","R","_","B","A","D","C","O","M","M","A","N","D",",","\n"," "," "," "," ","F","M","O","D","_","R","E","S","U","L","T","_","F","O","R","C","E","I","N","T"," ","="," ","6","5","5","3","6","\n","}"," ","F","M","O","D","_","R","E","S","U","L","T",";","\n">>,
       <<"t","y","p","e","d","e","f"," ","e","n","u","m"," ","F","M","O","D","_","O","U","T","P","U","T","T","Y","P","E","\n","{","\n"," "," "," "," ","F","M","O","D","_","O","U","T","P","U","T","T","Y","P","E","_","A","U","T","O","D","E","T","E","C","T",",","\n"," "," "," "," ","F","M","O","D","_","O","K"," ","="," ","7","\n","}"," ","F","M","O","D","_","O","U","T","P","U","T","T","Y","P","E",";","\n">>,
       <<"t","y","p","e","d","e","f"," ","e","n","u","m"," ","F","M","O","D","_","S","P","E","A","K","E","R","M","O","D","E","\n","{","\n"," "," "," "," ","F","M","O","D","_","S","P","E","A","K","E","R","M","O","D","E","_","R","A","W"," ","="," ","5",",","\n"," "," "," "," ","F","M","O","D","_","S","P","E","A","K","E","R","M","O","D","E","_","M","A","X"," ","="," ","0","x","1","0","0","\n","}"," ","F","M","O","D","_","S","P","E","A","K","E","R","M","O","D","E",";","\n">>,
       <<"t","y","p","e","d","e","f"," ","e","n","u","m"," ","F","M","O","D","_","S","O","U","N","D","_","T","Y","P","E","\n","{","\n"," "," "," "," ","F","M","O","D","_","S","O","U","N","D","_","T","Y","P","E","_","U","N","K","N","O","W","N",",","\n"," "," "," "," ","S","O","U","N","D","_","T","Y","P","E","_","M","A","X","\n","}"," ","F","M","O","D","_","S","O","U","N","D","_","T","Y","P","E",";","\n">>,
       <<"t","y","p","e","d","e","f"," ","e","n","u","m"," ","F","M","O","D","_","O","P","E","N","S","T","A","T","E","\n","{","\n"," "," "," "," ","F","M","O","D","_","O","P","E","N","S","T","A","T","E","_","E","R","R","O","R"," ","="," ","-","1",",","\n"," "," "," "," ","F","M","O","D","_","O","P","E","N","S","T","A","T","E","_","R","E","A","D","Y","\n","}"," ","F","M","O","D","_","O","P","E","N","S","T","A","T","E",";","\n">>,
       <<"t","y","p","e","d","e","f"," ","e","n","u","m"," ","F","M","O","D","_","T","H","R","E","A","D","_","T","Y","P","E","\n","{","\n"," "," "," "," ","F","M","O","D","_","T","H","R","E","A","D","_","T","Y","P","E","_","M","I","X","E","R"," ","="," ","0","x","1",","," ","/","/"," ","m","i","x","e","r","\n"," "," "," "," ","F","M","O","D","_","T","H","R","E","A","D","_","T","Y","P","E","_","F","E","E","D","E","R","\n","}"," ","F","M","O","D","_","T","H","R","E","A","D","_","T","Y","P","E",";","\n">>,
       <<"#","d","e","f","i","n","e"," ","F","M","O","D","_","T","I","M","E","U","N","I","T","_","M","S"," ","0","x","0","0","0","0","0","0","0","1","\n">>,
       <<"t","y","p","e","d","e","f"," ","u","n","s","i","g","n","e","d"," ","i","n","t"," ","F","M","O","D","_","M","O","D","E",";","\n","#","d","e","f","i","n","e"," ","F","M","O","D","_","D","E","F","A","U","L","T"," ","0","x","0","0","0","0","0","0","0","0","\n","#","d","e","f","i","n","e"," ","F","M","O","D","_","I","N","I","T","_","N","O","R","M","A","L"," ","0","x","0","0","0","0","0","0","0","8","\n","/","*"," ","F","M","O","D","_","T","I","M","E","U","N","I","T"," ","*","/","\n">>,
       <<"#","d","e","f","i","n","e"," ","F","M","O","D","_","I","N","I","T","_","N","O","R","M","A","L"," ","0","x","0","0","0","0","0","0","0","0","\n">>,
       <<"#","d","e","f","i","n","e"," ","F","M","O","D","_","S","Y","S","T","E","M","_","C","A","L","L","B","A","C","K","_","E","R","R","O","R"," ","0","x","2","0","0","0","0","0","0","\n">>,
       <<"#","d","e","f","i","n","e"," ","F","M","O","D","_","C","H","A","N","N","E","L","M","A","S","K","_","M","O","N","O"," ","0","x","5","\n">>,
       <<"#","d","e","f","i","n","e"," ","F","M","O","D","_","V","E","R","S","I","O","N"," ","0","x","0","0","0","2","0","3","0","9","\n">>,
       <<"#","d","e","f","i","n","e"," ","F","M","O","D","_","V","E","R","S","I","O","N"," ","0","x","1","0","\n">> >>

\* a header: up to MaxFragments fragments, named by their index
Headers == UNION {[1..n -> 1..Len(Fragments)] : n \in 0..MaxFragments}

RECURSIVE HeaderOf(_)
HeaderOf(d) == IF d = <<>> THEN <<>> ELSE Fragments[Head(d)] \o HeaderOf(Tail(d))

\* the (name, value) pairs a scan of main stores, in the order it stores them
Pairs(ms) ==
    [i \in 1..Len(ms) |-> [k |-> ms[i].name, v |-> ParseInt(ms[i].value_str, 16).val]]

----------------------------------------------------------------------------
(* main, pass by pass.  passes records what each pass has yielded. *)

\* lines 89-93: the header read, the empty table
Init ==
    \E d \in Headers :
        /\ decl = d
        /\ fmod_common = HeaderOf(d)
        /\ layout = "lines"
        /\ header_content = <<>>
        /\ enum_name = <<>>
        /\ prefix = <<>>
        /\ pc = "results"
        /\ lines = <<>>
        /\ matches = <<>>
        /\ constants = <<>>
        /\ current_value = 0
        /\ all_constants = <<>>
        /\ categories = <<>>
        /\ enum_idx = 0
        /\ passes = <<>>
        /\ cat_idx = 0
        /\ java_code = <<>>

\* lines 96-97
ParseResults ==
    /\ pc = "results"
    /\ \E r \in {ParseEnum(fmod_common, EnumNames[1])} :
           IF r.raised
           THEN /\ pc' = "raised"
                /\ UNCHANGED <<constants, all_constants, passes>>
           ELSE /\ pc' = "enums"
                /\ constants' = r.constants
                /\ all_constants' = DictUpdate(all_constants, r.constants)
                /\ passes' = Append(passes, r.constants)
    /\ enum_name' = EnumNames[1]
    /\ enum_idx' = 1
    /\ UNCHANGED <<header_content, prefix, decl, layout, lines, matches,
                   current_value, fmod_common, categories, cat_idx, java_code>>

\* lines 100-104: one iteration of the loop over the other enums
ParseOtherEnum ==
    /\ pc = "enums"
    /\ enum_idx < Len(EnumNames)
    /\ \E r \in {ParseEnum(fmod_common, EnumNames[enum_idx + 1])} :
           IF r.raised
           THEN /\ pc' = "raised"
                /\ UNCHANGED <<constants, all_constants, passes>>
           ELSE /\ pc' = IF enum_idx + 1 = Len(EnumNames) THEN "timeunit" ELSE "enums"
                /\ constants' = r.constants
                /\ all_constants' = DictUpdate(all_constants, r.constants)
                /\ passes' = Append(passes, r.constants)
    /\ enum_name' = EnumNames[enum_idx + 1]
    /\ enum_idx' = enum_idx + 1
    /\ UNCHANGED <<header_content, prefix, decl, layout, lines, matches,
                   current_value, fmod_common, categories, cat_idx, java_code>>

\* a scan of main from pc = at: the matches ms stored, then on to pc = to
Scan(at, ms, to) ==
    /\ pc = at
    /\ pc' = to
    /\ all_constants' = StoreHex(all_constants, ms)
    /\ passes' = Append(passes, Pairs(ms))
    /\ UNCHANGED <<header_content, enum_name, prefix, decl, layout, lines,
                   matches, constants, current_value, fmod_common, categories,
                   enum_idx, cat_idx, java_code>>

\* lines 107-111
ParseTimeunit == Scan("timeunit", HexDefines(fmod_common, <<"F","M","O","D","_","T","I","M","E","U","N","I","T","_">>), "mode")

\* lines 116-125
ParseMode == Scan("mode", ModeDefines(fmod_common), "init")

\* lines 128-132
ParseInit == Scan("init", HexDefines(fmod_common, <<"F","M","O","D","_","I","N","I","T","_">>), "callback")

\* lines 135-139
ParseCallback ==
    Scan("callback", HexDefines(fmod_common, <<"F","M","O","D","_","S","Y","S","T","E","M","_","C","A","L","L","B","A","C","K","_">>), "channelmask")

\* lines 142-146
ParseChannelmask ==
    Scan("channelmask", HexDefines(fmod_common, <<"F","M","O","D","_","C","H","A","N","N","E","L","M","A","S","K","_">>), "version")

\* lines 149-151
AddVersion == Scan("version", VersionSearch(fmod_common), "categorize")

\* lines 154-204: the categories filled, the preamble written
Categorize ==
    /\ pc = "categorize"
    /\ pc' = "emit"
    /\ categories' = Categorized(all_constants)
    /\ java_code' = << Line("preamble", "", <<>>, 0, <<>>, <<"2",".","0","3",".","0","9">>) >>
    /\ cat_idx' = 0
    /\ UNCHANGED <<header_content, enum_name, prefix, decl, layout, lines,
                   matches, constants, current_value, fmod_common, all_constants,
                   enum_idx, passes>>

\* lines 206-236: one iteration of the loop over the categories
EmitCategory ==
    /\ pc = "emit"
    /\ cat_idx < Len(categories)
    /\ java_code' = java_code \o Block(categories[cat_idx + 1].k,
                                       categories[cat_idx + 1].v, all_constants)
    /\ cat_idx' = cat_idx + 1
    /\ pc' = IF cat_idx + 1 = Len(categories) THEN "finish" ELSE "emit"
    /\ UNCHANGED <<header_content, enum_name, prefix, decl, layout, lines,
                   matches, constants, current_value, fmod_common, all_constants,
                   categories, enum_idx, passes>>

\* lines 238-247: the closing brace, the file written
Finish ==
    /\ pc = "finish"
    /\ pc' = "done"
    /\ java_code' = Append(java_code, Line("close", "", <<>>, 0, <<>>, <<>>))
    /\ UNCHANGED <<header_content, enum_name, prefix, decl, layout, lines,
                   matches, constants, current_value, fmod_common, all_constants,
                   categories, enum_idx, passes, cat_idx>>

Next ==
    \/ ParseResults
    \/ ParseOtherEnum
    \/ ParseTimeunit
    \/ ParseMode
    \/ ParseInit
    \/ ParseCallback
    \/ ParseChannelmask
    \/ AddVersion
    \/ Categorize
    \/ EmitCategory
    \/ Finish

Spec == Init /\ [][Next]_vars

----------------------------------------------------------------------------
(* Properties of main *)

Range(s) == {s[i] : i \in 1..Len(s)}

\* the declaration lines written so far
DeclLines == {i \in 1..Len(java_code) : java_code[i].kind = "decl"}

\* 0x and eight upper-case hexadecimal digits
IsHex8(s) ==
    /\ Len(s) = 10
    /\ s[1] = "0"
    /\ s[2] = "x"
    /\ \A k \in 3..10 : s[k] \in Range(HexChars)

\* a decimal numeral: an optional minus sign, then digits
IsDecimal(s) ==
    LET body == IF s # <<>> /\ s[1] = "-" THEN Tail(s) ELSE s
    IN  body # <<>> /\ \A k \in 1..Len(body) : IsDigit(body[k])

\* C4: every declaration written for a value in the signed 32-bit range
\* carries 0x and exactly eight upper-case hexadecimal digits when the value
\* is at least 0x100 or the category is a bit-flag category, and the decimal
\* numeral of the value otherwise.
C4_ValueFormat ==
    \A i \in DeclLines :
        LET l == java_code[i]
        IN  (0 - 2147483647 - 1 <= l.value /\ l.value <= 2147483647) =>
                IF l.value >= 256 \/ l.category \in HexCategories
                THEN IsHex8(l.value_str) /\ ParseInt(l.value_str, 16).val = l.value
                ELSE IsDecimal(l.value_str) /\ ParseInt(l.value_str, 10).val = l.value

\* the two-digit upper-case hexadecimal numeral of a byte
Byte(b) == <<HexChars[(b \div 16) + 1], HexChars[(b % 16) + 1]>>

\* the version string of a version value: the high 16 bits, then the two
\* low bytes, in hexadecimal
VersionString(v) ==
    DigitsOf(v \div 65536, 16) \o <<".">> \o Byte((v \div 256) % 256) \o <<".">> \o Byte(v % 256)

\* C5: the declaration of FMOD_VERSION carries a hexadecimal literal whatever
\* the value, and its comment is the version string of that value.
C5_VersionHex ==
    \A i \in DeclLines :
        java_code[i].name = FMOD_VERSION =>
            /\ StartsWith(java_code[i].value_str, <<"0","x">>)
            /\ java_code[i].comment = VersionString(java_code[i].value)

\* name is in the list of category c
InCat(name, c) ==
    \E i \in 1..Len(categories) :
        categories[i].k = c /\ name \in Range(categories[i].v)

\* the rules in their priority order: the prefixes of each and its category
Rules ==
    << [pre |-> {<<"F","M","O","D","_","O","K">>, <<"F","M","O","D","_","E","R","R","_">>}, cat |-> "Result codes"],
       [pre |-> {<<"F","M","O","D","_","I","N","I","T","_">>}, cat |-> "FMOD_INITFLAGS"],
       [pre |-> {<<"F","M","O","D","_","T","I","M","E","U","N","I","T","_">>}, cat |-> "FMOD_TIMEUNIT"],
       [pre |-> {<<"F","M","O","D","_","S","Y","S","T","E","M","_","C","A","L","L","B","A","C","K","_">>}, cat |-> "FMOD_SYSTEM_CALLBACK_TYPE"],
       [pre |-> {<<"F","M","O","D","_","C","H","A","N","N","E","L","M","A","S","K","_">>}, cat |-> "FMOD_CHANNELMASK"],
       [pre |-> {<<"F","M","O","D","_","O","U","T","P","U","T","T","Y","P","E","_">>}, cat |-> "FMOD_OUTPUTTYPE"],
       [pre |-> {<<"F","M","O","D","_","S","P","E","A","K","E","R","M","O","D","E","_">>}, cat |-> "FMOD_SPEAKERMODE"],
       [pre |-> {<<"F","M","O","D","_","S","O","U","N","D","_","T","Y","P","E","_">>}, cat |-> "FMOD_SOUND_TYPE"],
       [pre |-> {<<"F","M","O","D","_">>}, cat |-> "FMOD_MODE"] >>

RuleMatches(name, r) == \E p \in Rules[r].pre : StartsWith(name, p)

\* the categories a name may be in: that of the version symbol for
\* FMOD_VERSION, that of the first rule matched for another name, none for
\* a name no rule matches
Expected(name) ==
    IF name = FMOD_VERSION THEN {"Version"}
    ELSE {Rules[r].cat : r \in {q \in 1..Len(Rules) :
                                   /\ RuleMatches(name, q)
                                   /\ \A h \in 1..(q - 1) : ~RuleMatches(name, h)}}

\* C8: once the names are categorized, a name of the merged table is in no
\* category but that of the first rule it matches, and in its list once; a
\* name no rule matches is in no category and in no declaration; every
\* declaration is in the block of its name's category, and no name is
\* declared twice.
C8_FirstRule ==
    pc \in {"emit", "finish", "done"} =>
        /\ \A name \in KeySet(all_constants) :
              /\ \A i \in 1..Len(categories) :
                    /\ name \in Range(categories[i].v) => categories[i].k \in Expected(name)
                    /\ Cardinality({j \in 1..Len(categories[i].v) :
                                       categories[i].v[j] = name}) <= 1
              /\ name # FMOD_VERSION =>
                    \A c \in Expected(name) : InCat(name, c)
        /\ \A i \in DeclLines :
              /\ java_code[i].category \in Expected(java_code[i].name)
              /\ \A j \in DeclLines : java_code[j].name = java_code[i].name => j = i

\* a run has ended with a name no rule matches, a name only the generic rule
\* matches and a name of a more specific rule, the latter two declared
C8_Witness ==
    /\ pc = "done"
    /\ Has(all_constants, <<"S","O","U","N","D","_","T","Y","P","E","_","M","A","X">>)
    /\ \E i, j \in DeclLines :
          /\ java_code[i].name = <<"F","M","O","D","_","S","O","U","N","D","_","T","Y","P","E","_","U","N","K","N","O","W","N">>
          /\ java_code[i].category = "FMOD_SOUND_TYPE"
          /\ java_code[j].name = <<"F","M","O","D","_","O","P","E","N","S","T","A","T","E","_","R","E","A","D","Y">>
          /\ java_code[j].category = "FMOD_MODE"

\* what the passes have yielded so far, in the order yielded
RECURSIVE Yielded(_)
Yielded(ps) == IF ps = <<>> THEN <<>> ELSE Head(ps) \o Yielded(Tail(ps))

\* C9: at every point of the merge the table has each name yielded so far
\* once, with the value of the last time it was yielded, and no other name.
C9_LastWriterWins ==
    LET ys == Yielded(passes)
    IN  /\ \A i, j \in 1..Len(all_constants) :
               all_constants[i].k = all_constants[j].k => i = j
        /\ KeySet(all_constants) = {ys[i].k : i \in 1..Len(ys)}
        /\ \A i \in 1..Len(ys) :
               (\A j \in (i + 1)..Len(ys) : ys[j].k # ys[i].k)
                   => Get(all_constants, ys[i].k) = ys[i].v

\* all the passes have run, two of them yielded one name with different
\* values, and one of them yielded a name twice with different values
C9_Witness ==
    /\ pc = "categorize"
    /\ \E p, q \in 1..Len(passes) :
          /\ p < q
          /\ \E i \in 1..Len(passes[p]), j \in 1..Len(passes[q]) :
                /\ passes[p][i].k = passes[q][j].k
                /\ passes[p][i].v # passes[q][j].v
    /\ \E p \in 1..Len(passes) :
          \E i, j \in 1..Len(passes[p]) :
              /\ i < j
              /\ passes[p][i].k = passes[p][j].k
              /\ passes[p][i].v # passes[p][j].v

\* C10: every category header written is followed by a declaration of that
\* category.
C10_HeaderHasDecl ==
    \A i \in 1..Len(java_code) :
        java_code[i].kind = "header" =>
            /\ i < Len(java_code)
            /\ java_code[i + 1].kind = "decl"
            /\ java_code[i + 1].category = java_code[i].category
====
